---- MODULE Spec2Model ----
(***************************************************************************)
(* State-machine model of sisyphus' Son of Grid Engine backend             *)
(* (src/sisyphus/son_of_grid_engine.py): range compaction and array        *)
(* submission (submit_call / submit_helper), the time-boxed queue cache    *)
(* (queue_state / reset_cache) and the task state resolver (task_state).   *)
(*                                                                         *)
(* Strings that the code formats, splits or escapes are sequences of       *)
(* one-character strings; opaque strings (raw scheduler states, abstract   *)
(* task states) are TLA+ strings.  Python's None is NoId for task ids and  *)
(* NoJob for job ids.                                                      *)
(***************************************************************************)
EXTENDS Integers, Sequences, FiniteSets, TLC

\* ------------------------------------------------------------------ bounds

\* task ids offered to submit_call under Spec (the engine) are 1..MaxTaskId
MaxTaskId == 2
\* task ids offered to submit_call under SpecCompact (compaction) are 1..MaxCompactId
MaxCompactId == 10
\* calls (submit_call, queue_state, task_state) made in one behaviour
MaxOps == 3
\* transport timeouts and parse errors injected into one call
MaxFailures == 2
\* the clock runs from StartTime to StartTime + TimeSpan
TimeSpan == 40
\* the length of the task descriptors enumerated in full
MaxDescriptorLen == 3
\* the length of the job names offered to submit_call under SpecEscape
MaxNameLen == 3
\* task ids offered to submit_call under SpecRanges are 1..MaxRangeId
MaxRangeId == 7
\* the longest stderr text of a filtered answer, in lines
MaxErrLines == 2

\* ------------------------------------------------------- program constants

\* the refresh interval of queue_state
CacheTTL == 30
\* the value reset_cache stores in the timestamp
ResetStamp == -10
\* the timestamp set by the constructor
InitStamp == 0
\* None as a task id (start_id, end_id, step_size, the task of a job without tasks)
NoId == 0
\* None as a job id
NoJob == <<>>

ENGINE_NAME == "sge"
STATE_RUNNING == "RUNNING"
STATE_UNKNOWN == "UNKNOWN"
STATE_QUEUE == "QUEUE"
STATE_QUEUE_ERROR == "QUEUE_ERROR"

\* time.time() is seconds since the epoch: whenever the engine runs, it is far
\* beyond the refresh interval, so neither the constructor's stamp 0 nor the
\* reset stamp -10 is ever "fresh".  The model's clock starts at CacheTTL.
StartTime == CacheTTL
MaxTime == StartTime + TimeSpan
\* lengths of the pauses between two calls of the engine
Durations == {10, 20}
\* gs.WAIT_PERIOD_SSH_TIMEOUT and gs.WAIT_PERIOD_QSTAT_PARSING, the pauses of a
\* retry: global settings, some positive number of seconds
WaitPeriods == {10}

\* ----------------------------------------------------------------- strings

Digit == <<"0", "1", "2", "3", "4", "5", "6", "7", "8", "9">>

RECURSIVE IntToStr(_)
\* '%i' % n
IntToStr(n) ==
    IF n < 0 THEN <<"-">> \o IntToStr(0 - n)
    ELSE IF n < 10 THEN <<Digit[n + 1]>>
    ELSE IntToStr(n \div 10) \o <<Digit[(n % 10) + 1]>>

IsDigit(c) == \E d \in 1..10 : Digit[d] = c

DigitVal(c) == (CHOOSE d \in 1..10 : Digit[d] = c) - 1

RECURSIVE DigitsVal(_)
DigitsVal(s) ==
    IF s = <<>> THEN 0
    ELSE 10 * DigitsVal(SubSeq(s, 1, Len(s) - 1)) + DigitVal(s[Len(s)])

AllDigits(s) == s # <<>> /\ \A i \in 1..Len(s) : IsDigit(s[i])

\* int(s) succeeds: an optional sign followed by digits
IsInt(s) ==
    \/ AllDigits(s)
    \/ Len(s) > 1 /\ s[1] \in {"-", "+"} /\ AllDigits(Tail(s))

\* int(s), where IsInt(s)
StrToInt(s) ==
    IF s[1] = "-" THEN 0 - DigitsVal(Tail(s))
    ELSE IF s[1] = "+" THEN DigitsVal(Tail(s))
    ELSE DigitsVal(s)

Contains(s, c) == \E i \in 1..Len(s) : s[i] = c

RECURSIVE Split(_, _)
\* s.split(c): the pieces of s between the occurrences of c
Split(s, c) ==
    IF ~Contains(s, c) THEN <<s>>
    ELSE LET i == CHOOSE j \in 1..Len(s) :
                      s[j] = c /\ \A k \in 1..(j - 1) : s[k] # c
         IN  <<SubSeq(s, 1, i - 1)>> \o Split(SubSeq(s, i + 1, Len(s)), c)

\* an escaping that also rewrites the character it produces
escape_name_Twice(name) ==
    [i \in 1..Len(name) |-> IF name[i] = "/" THEN "."
                            ELSE IF name[i] = "." THEN "_" ELSE name[i]]

\* name.replace('/', '.')
escape_name(name) ==
    [i \in 1..Len(name) |-> IF name[i] = "/" THEN "." ELSE name[i]]

\* a rendering with the exclusive end of Python's range
FormatRange_Exclusive(start, end, step) ==
    IntToStr(start) \o <<"-">> \o IntToStr(end - 1) \o <<":">> \o IntToStr(step)

\* '%i-%i:%i' % (start_id, end_id, step_size)
FormatRange(start, end, step) ==
    IntToStr(start) \o <<"-">> \o IntToStr(end) \o <<":">> \o IntToStr(step)

RECURSIVE PyRange(_, _, _)
\* list(range(start, end, step)) for step # 0: end is exclusive
PyRange(start, end, step) ==
    IF (step > 0 /\ start >= end) \/ (step < 0 /\ start <= end) THEN <<>>
    ELSE <<start>> \o PyRange(start + step, end, step)

\* ------------------------------------------------------------------ inputs

\* job names handed to submit_call and task_state (task.task_name())
TaskNames == {<<"a", "/", "b">>}

\* the job number the scheduler gives to a submission
JobNumbers == {<<"9">>}

RECURSIVE IncreasingLists(_)
\* the strictly increasing lists of task ids drawn from 1..n (the empty one included)
IncreasingLists(n) ==
    IF n = 0 THEN {<<>>}
    ELSE LET S == IncreasingLists(n - 1)
         IN  S \cup {Append(s, n) : s \in S}

\* a word of a command's output that the code only compares as a whole
Word(w) == <<w>>

\* '("%s")' % name
NameTok(name) == <<"(", "\"">> \o name \o <<"\"", ")">>

\* the acknowledgment line of qsub for a job array, split at white space
AckLine(jobtok, name) ==
    <<Word("Your"), Word("job-array"), jobtok, NameTok(name),
      Word("has"), Word("been"), Word("submitted")>>

\* a byte that is not valid UTF-8: raw_line.decode('utf8') raises on it
InvalidByte == "0xff"

\* white space at an end of a line
Blank == " "

\* stderr lines, as the pieces the executor looks at
MarkerLine == <<"ControlSocket", " /tmp/ssh-ctl ", "already exists, disabling multiplexing">>
ErrorLine == <<"Unable to run job">>

\* stderr lines about the control socket that are not the marker, the marker
\* with white space around it, and a line that is not UTF-8
SocketNotice == <<"ControlSocket", " /tmp/ssh-ctl ", "is in use">>
SshNotice == <<"ssh: ", "already exists, disabling multiplexing">>
PaddedMarker == <<Blank>> \o MarkerLine \o <<Blank>>
BinaryLine == <<"qsub: ", InvalidByte>>

\* the stderr lines of the answers to a filtered command
StderrLines == {MarkerLine, PaddedMarker, ErrorLine, SocketNotice, SshNotice, BinaryLine}

\* the stderr texts of up to MaxErrLines lines
StderrTexts == UNION {[1..n -> StderrLines] : n \in 0..MaxErrLines}

\* the expected acknowledgment with exit code 0 and the stderr text err
Acknowledged(name, rng, err) ==
    [out |-> <<AckLine((CHOOSE x \in JobNumbers : TRUE) \o <<".">> \o rng, name)>>,
     err |-> err, retval |-> 0]

\* the raw answers of the scheduler to a qsub of the range rng under the name
\* name: the expected acknowledgment and each deviation of it
SubmitAnswers(name, rng) ==
    LET j == CHOOSE x \in JobNumbers : TRUE
        good(n) == AckLine(n \o <<".">> \o rng, name)
    IN  {[out |-> <<good(n)>>, err |-> <<>>, retval |-> 0] : n \in JobNumbers}
        \cup
        { [out |-> <<good(j)>>, err |-> <<>>, retval |-> 1],
          [out |-> <<good(j)>>, err |-> <<ErrorLine>>, retval |-> 0],
          [out |-> <<good(j)>>, err |-> <<MarkerLine>>, retval |-> 0],
          [out |-> <<>>, err |-> <<ErrorLine>>, retval |-> 1],
          [out |-> <<good(j), good(j)>>, err |-> <<>>, retval |-> 0],
          [out |-> <<SubSeq(good(j), 1, 6)>>, err |-> <<>>, retval |-> 0],
          [out |-> <<AckLine(j \o <<".">> \o rng, name \o <<"x">>)>>,
           err |-> <<>>, retval |-> 0],
          [out |-> <<[good(j) EXCEPT ![2] = Word("job")]>>, err |-> <<>>, retval |-> 0],
          [out |-> <<AckLine(j, name)>>, err |-> <<>>, retval |-> 0],
          [out |-> <<AckLine(j \o <<".">> \o rng \o <<"0">>, name)>>,
           err |-> <<>>, retval |-> 0] }

\* ------------------------------------------------------- the status listing

\* a task id as it appears in a key of the cache: None is <<>>, the id n is <<n>>
NoTask == <<>>
TaskOf(n) == <<n>>
Key(name, task) == <<name, task>>

\* the text of a job record without a tasks element
NoTasks == <<"None">>

JobRecord(name, state, tasks, number) ==
    [JB_name |-> name, state |-> state, tasks |-> tasks, JB_job_number |-> number]

\* the job records of the listings: every kind of raw state and of task
\* descriptor, with two jobs that cover the same task of one name
RunningArray == JobRecord(<<"a", ".", "b">>, "r", <<"1", "-", "3", ":", "2">>, <<"7">>)
ErrorTask == JobRecord(<<"a", ".", "b">>, "Eqw", <<"1">>, <<"8">>)
QueuedJob == JobRecord(<<"c">>, "qw", NoTasks, <<"8">>)
DeletedTasks == JobRecord(<<"a", ".", "b">>, "dr", <<"1", ",", "2">>, <<"7">>)
OddTasks == JobRecord(<<"a", ".", "b">>, "t", <<"1", "-", "2">>, <<"7">>)
BadRange == JobRecord(<<"c">>, "r", <<"1", ":", "2">>, <<"7">>)
Transferring == JobRecord(<<"a", ".", "b">>, "t", <<"2">>, <<"8">>)

\* the listings that qstat answers with when its output parses as XML
Listings ==
    { <<>>, <<RunningArray>>, <<ErrorTask>>, <<RunningArray, ErrorTask>>,
      <<ErrorTask, RunningArray>>, <<QueuedJob, DeletedTasks>>, <<OddTasks, Transferring>>,
      <<RunningArray, BadRange>> }

Raises == [ok |-> FALSE, ids |-> <<>>]
Parsed(ids) == [ok |-> TRUE, ids |-> ids]

RECURSIVE parse_tasks(_)
\* parse_tasks: the tasks of a descriptor, or Raises where the code raises ValueError
parse_tasks(string) ==
    IF string = NoTasks THEN Parsed(<<NoTask>>)
    ELSE IF IsInt(string) THEN Parsed(<<TaskOf(StrToInt(string))>>)
    ELSE IF Contains(string, ",")
    THEN LET parts == Split(string, ",")
             RECURSIVE cat(_)
             cat(i) ==
                 IF i > Len(parts) THEN Parsed(<<>>)
                 ELSE LET h == parse_tasks(parts[i])
                          t == cat(i + 1)
                      IN  IF h.ok /\ t.ok THEN Parsed(h.ids \o t.ids) ELSE Raises
         IN  cat(1)
    ELSE IF Contains(string, ":")
    THEN LET parts == Split(string, ":")
             start_end == Split(parts[1], "-")
         IN  IF Len(parts) # 2 \/ Len(start_end) # 2 THEN Raises
             ELSE IF ~(IsInt(start_end[1]) /\ IsInt(start_end[2]) /\ IsInt(parts[2]))
             THEN Raises
             ELSE IF StrToInt(parts[2]) = 0 THEN Raises
             ELSE LET r == PyRange(StrToInt(start_end[1]), StrToInt(start_end[2]) + 1,
                                   StrToInt(parts[2]))
                  IN  Parsed([i \in 1..Len(r) |-> TaskOf(r[i])])
    ELSE Parsed(<<>>)

\* ---------------------------------------------------------------- executor

\* raw_line.decode('utf8') raises UnicodeDecodeError
Undecodable(line) == \E i \in 1..Len(line) : line[i] = InvalidByte

RECURSIVE LStrip(_)
LStrip(line) ==
    IF line # <<>> /\ Head(line) = Blank THEN LStrip(Tail(line)) ELSE line

RECURSIVE RStrip(_)
RStrip(line) ==
    IF line # <<>> /\ line[Len(line)] = Blank
    THEN RStrip(SubSeq(line, 1, Len(line) - 1))
    ELSE line

\* str.strip()
Strip(line) == RStrip(LStrip(line))

\* a filter that takes every line about the control socket for the marker
IsMarker_StartOnly(line) ==
    /\ Strip(line) # <<>>
    /\ Strip(line)[1] = "ControlSocket"

\* the stripped stderr line is the ssh control-socket marker (lines 78-82)
IsMarker(line) ==
    /\ Strip(line) # <<>>
    /\ Strip(line)[1] = "ControlSocket"
    /\ Strip(line)[Len(Strip(line))] = "already exists, disabling multiplexing"

RECURSIVE FilterErr(_)
\* err_: the stderr lines that are not the marker, in order
FilterErr(err) ==
    IF err = <<>> THEN <<>>
    ELSE IF IsMarker(Head(err)) THEN FilterErr(Tail(err))
    ELSE <<Head(err)>> \o FilterErr(Tail(err))

\* (out, err_, retval) of a command that did not time out
system_call(raw) ==
    [out |-> raw.out, err |-> FilterErr(raw.err), retval |-> raw.retval]

\* the loop over the stderr lines meets a line that it cannot decode (line 80)
SystemCallRaises(raw) == \E i \in 1..Len(raw.err) : Undecodable(raw.err[i])

\* ------------------------------------------------------------------- state

VARIABLES
    now,                            \* time.time()
    task_info_cache_set,            \* the attribute _task_info_cache exists
    task_info_cache,                \* (name, task id) -> list of (job id, raw state)
    task_info_cache_last_update,    \* _task_info_cache_last_update
    auto_clean_eqw,                 \* the constructor's flag
    pc,                             \* position of the one thread of control
    ops,                            \* calls made so far
    sc,                             \* locals of submit_call / submit_helper
    qs,                             \* locals of queue_state / task_state
    result,                         \* what the running call returned or raised
    hist,                           \* what the running call did (commands issued)
    last                            \* what the call before submitted with success

vars == <<now, task_info_cache_set, task_info_cache, task_info_cache_last_update,
          auto_clean_eqw, pc, ops, sc, qs, result, hist, last>>

engine == <<task_info_cache_set, task_info_cache, task_info_cache_last_update,
            auto_clean_eqw>>

NoSubmit ==
    [name |-> <<>>, task_ids |-> <<>>, idx |-> 0, start_id |-> NoId,
     end_id |-> NoId, step_size |-> NoId, submitted |-> <<>>,
     final |-> FALSE, harg |-> <<>>]

NoQuery == [caller |-> "none", task_name |-> <<>>, task_id |-> NoId]

NoResult == [kind |-> "none"]

NoHist ==
    [handed |-> <<>>, issued |-> <<>>, timeouts |-> <<>>, qstat |-> 0,
     retries |-> 0, qmod |-> <<>>]

\* what the caller knows of the call before: the task ids that the last
\* submit_call submitted with success, under which name
NoLast == [name |-> <<>>, ids |-> {}]

\* SonOfGridEngine.__init__: only the timestamp is set
Init ==
    /\ now = StartTime
    /\ task_info_cache_set = FALSE
    /\ task_info_cache = <<>>
    /\ task_info_cache_last_update = InitStamp
    /\ auto_clean_eqw \in BOOLEAN
    /\ pc = "idle"
    /\ ops = 0
    /\ sc = NoSubmit
    /\ qs = NoQuery
    /\ result = NoResult
    /\ hist = NoHist
    /\ last = NoLast

\* the clock advances while the engine is not called
Tick ==
    /\ pc = "idle"
    /\ \E d \in Durations :
          /\ now + d <= MaxTime
          /\ now' = now + d
    /\ UNCHANGED <<engine, pc, ops, sc, qs, result, hist, last>>

\* the task ids of the range r = (start, end, step), end included
InclusiveIds(r) == {i \in r[1]..r[2] : (i - r[1]) % r[3] = 0}

\* the caller takes the result (or the exception) of the finished call
Return ==
    /\ pc \in {"returned", "raised"}
    /\ pc' = "idle"
    /\ sc' = NoSubmit
    /\ qs' = NoQuery
    /\ result' = NoResult
    /\ hist' = NoHist
    /\ UNCHANGED <<now, engine, ops, last>>

\* the same, and the caller keeps in mind what a submit_call submitted
ReturnNoting ==
    /\ pc \in {"returned", "raised"}
    /\ pc' = "idle"
    /\ sc' = NoSubmit
    /\ qs' = NoQuery
    /\ result' = NoResult
    /\ hist' = NoHist
    /\ last' = IF pc = "returned" /\ result.kind = "submit_call"
               THEN [name |-> escape_name(sc.name),
                     ids |-> UNION {InclusiveIds(hist.handed[i]) :
                                      i \in {j \in 1..Len(sc.submitted) :
                                                sc.submitted[j][2] # NoJob}}]
               ELSE NoLast
    /\ UNCHANGED <<now, engine, ops>>

\* ------------------------------------------------------------- the cache

\* defaultdict lookup without the insertion
Get(c, k) == IF k \in DOMAIN c THEN c[k] ELSE <<>>

\* a cache whose lists take a new record in front
AppendAll_Prepend(c, keys, v) ==
    [k \in DOMAIN c \cup keys |->
        IF k \in keys THEN <<v>> \o Get(c, k) ELSE c[k]]

\* c[k].append(v) for every k of keys: a defaultdict creates the missing lists
AppendAll(c, keys, v) ==
    [k \in DOMAIN c \cup keys |->
        IF k \in keys THEN Append(Get(c, k), v) ELSE c[k]]

\* c[k]: reading a missing key of a defaultdict inserts the empty list
Touch(c, k) ==
    [x \in DOMAIN c \cup {k} |-> Get(c, x)]

Elems(s) == {s[i] : i \in 1..Len(s)}

\* ------------------------------------------------- submit_call, submit_helper

\* the call: an empty list returns at once, otherwise the loop starts
SubmitCall(name, task_ids) ==
    /\ pc = "idle"
    /\ ops < MaxOps
    /\ ops' = ops + 1
    /\ IF task_ids = <<>>
       THEN /\ pc' = "returned"
            /\ result' = [kind |-> "submit_call", value |-> <<>>]
            /\ sc' = NoSubmit
       ELSE /\ pc' = "submit_loop"
            /\ result' = NoResult
            /\ sc' = [NoSubmit EXCEPT !.name = name, !.task_ids = task_ids, !.idx = 1]
    /\ UNCHANGED <<now, engine, qs, hist, last>>

\* a compactor that extends a run by every id beyond its next member
FitsPattern_Beyond(task_id, end_id, step_size) == task_id >= end_id + step_size

\* a compactor that only extends runs of consecutive ids
FitsPattern_Consecutive(task_id, end_id, step_size) == task_id = end_id + 1

\* the task id continues the run that (start_id, end_id, step_size) describes
FitsPattern(task_id, end_id, step_size) == task_id = end_id + step_size

\* sc with submit_helper entered for the range at hand
EnterHelper(s, final) == [s EXCEPT !.final = final, !.harg = s.name]

\* one iteration of "for task_id in task_ids"
SubmitLoop ==
    /\ pc = "submit_loop"
    /\ sc.idx <= Len(sc.task_ids)
    /\ LET task_id == sc.task_ids[sc.idx]
       IN  IF sc.start_id = NoId
           THEN /\ sc' = [sc EXCEPT !.start_id = task_id, !.idx = @ + 1]
                /\ UNCHANGED <<pc, hist>>
           ELSE IF sc.end_id = NoId
           THEN /\ sc' = [sc EXCEPT !.end_id = task_id,
                                    !.step_size = task_id - sc.start_id,
                                    !.idx = @ + 1]
                /\ UNCHANGED <<pc, hist>>
           ELSE IF FitsPattern(task_id, sc.end_id, sc.step_size)
           THEN /\ sc' = [sc EXCEPT !.end_id = task_id, !.idx = @ + 1]
                /\ UNCHANGED <<pc, hist>>
           ELSE /\ sc' = EnterHelper(sc, FALSE)
                /\ pc' = "submit_helper"
                /\ hist' = [hist EXCEPT
                              !.handed = Append(@, <<sc.start_id, sc.end_id, sc.step_size>>),
                              !.timeouts = Append(@, 0)]
    /\ UNCHANGED <<now, engine, ops, qs, result, last>>

\* after the loop: a lone id becomes (id, id, 1), and the last run is handed over
SubmitLast ==
    /\ pc = "submit_loop"
    /\ sc.idx > Len(sc.task_ids)
    /\ LET end_id == IF sc.end_id = NoId THEN sc.start_id ELSE sc.end_id
           step_size == IF sc.end_id = NoId THEN 1 ELSE sc.step_size
       IN  /\ sc' = EnterHelper([sc EXCEPT !.end_id = end_id, !.step_size = step_size],
                                TRUE)
           /\ hist' = [hist EXCEPT
                         !.handed = Append(@, <<sc.start_id, end_id, step_size>>),
                         !.timeouts = Append(@, 0)]
    /\ pc' = "submit_helper"
    /\ UNCHANGED <<now, engine, ops, qs, result, last>>

\* ref_output
RefOutput(name) ==
    <<Word("Your"), Word("job-array"), NameTok(name),
      Word("has"), Word("been"), Word("submitted")>>

\* a validation that does not compare the tokens with ref_output
AckDeviates_NoTemplate(ans, name) ==
    \/ Len(ans.out) # 1
    \/ ans.retval # 0
    \/ Len(ans.err) > 0
    \/ Len(ans.out[1]) # 7

\* the answer deviates from the expected acknowledgment (lines 198-200, 224)
AckDeviates(ans, name) ==
    \/ Len(ans.out) # 1
    \/ ans.retval # 0
    \/ Len(ans.err) > 0
    \/ Len(ans.out[1]) # 7
    \/ SubSeq(ans.out[1], 1, 2) \o SubSeq(ans.out[1], 4, Len(ans.out[1])) # RefOutput(name)

\* the two assertions on the job-id token of an accepted acknowledgment
JobTokenOk(ans, rng) ==
    LET sjob_id == Split(ans.out[1][3], ".")
    IN  /\ Len(sjob_id) = 2
        /\ sjob_id[2] = rng

\* the task ids that a successful submission records as queued
SeededIds(start_id, end_id, step_size) == PyRange(start_id, end_id, step_size)

\* reset_cache
reset_cache == task_info_cache_last_update' = ResetStamp

\* a submit_call that gives up at the first range whose submission failed
SubmitContinue_StopOnFailure(s, job_id) ==
    LET entry == <<PyRange(s.start_id, s.end_id, s.step_size), job_id>>
        submitted == Append(s.submitted, entry)
    IN  IF s.final \/ job_id = NoJob
        THEN /\ pc' = "returned"
             /\ result' = [kind |-> "submit_call", value |-> <<ENGINE_NAME, submitted>>]
             /\ sc' = [s EXCEPT !.submitted = submitted]
        ELSE /\ pc' = "submit_loop"
             /\ result' = NoResult
             /\ sc' = [s EXCEPT !.submitted = submitted,
                                !.start_id = s.task_ids[s.idx],
                                !.end_id = NoId, !.step_size = NoId,
                                !.idx = @ + 1]

\* submit_call goes on after submit_helper returned job_id
SubmitContinue(s, job_id) ==
    LET entry == <<PyRange(s.start_id, s.end_id, s.step_size), job_id>>
        submitted == Append(s.submitted, entry)
    IN  IF s.final
        THEN /\ pc' = "returned"
             /\ result' = [kind |-> "submit_call", value |-> <<ENGINE_NAME, submitted>>]
             /\ sc' = [s EXCEPT !.submitted = submitted]
        ELSE /\ pc' = "submit_loop"
             /\ result' = NoResult
             /\ sc' = [s EXCEPT !.submitted = submitted,
                                !.start_id = s.task_ids[s.idx],
                                !.end_id = NoId, !.step_size = NoId,
                                !.idx = @ + 1]

\* the qsub command cannot be issued again within the model's bounds
CanRetry(d) == hist.retries < MaxFailures /\ now + d <= MaxTime

\* the name and the range of the qsub command of the attempt at hand
HelperName == escape_name(sc.harg)
HelperRange == FormatRange(sc.start_id, sc.end_id, sc.step_size)

\* the qsub command is issued
Issue == Append(hist.issued, [N |-> HelperName, t |-> HelperRange])

\* an attempt of submit_helper times out: sleep, then call submit_helper again
SubmitTimedOut ==
    /\ pc = "submit_helper"
    /\ \E d \in WaitPeriods :
          /\ CanRetry(d)
          /\ now' = now + d
    /\ sc' = [sc EXCEPT !.harg = HelperName]
    /\ hist' = [hist EXCEPT !.issued = Issue,
                            !.retries = @ + 1,
                            !.timeouts[Len(hist.handed)] = @ + 1]
    /\ UNCHANGED <<pc, result, engine, ops, qs, last>>

\* an attempt of submit_helper gets the answer raw (lines 194-234)
SubmitAnswered(raw) ==
    /\ pc = "submit_helper"
    /\ LET name == HelperName
           rng == HelperRange
           ans == system_call(raw)
           ids == SeededIds(sc.start_id, sc.end_id, sc.step_size)
           job_id == Split(ans.out[1][3], ".")[1]
       IN  /\ hist' = [hist EXCEPT !.issued = Issue]
           /\ IF SystemCallRaises(raw)
              THEN /\ pc' = "raised"
                   /\ result' = [kind |-> "UnicodeDecodeError"]
                   /\ UNCHANGED <<sc, engine>>
              ELSE IF AckDeviates(ans, name)
              THEN /\ reset_cache
                   /\ SubmitContinue(sc, NoJob)
                   /\ UNCHANGED <<task_info_cache_set, task_info_cache, auto_clean_eqw>>
              ELSE IF ~JobTokenOk(ans, rng)
              THEN /\ pc' = "raised"
                   /\ result' = [kind |-> "AssertionError"]
                   /\ UNCHANGED <<sc, engine>>
              ELSE IF ids # <<>> /\ ~task_info_cache_set
              THEN /\ pc' = "raised"
                   /\ result' = [kind |-> "AttributeError"]
                   /\ UNCHANGED <<sc, engine>>
              ELSE /\ task_info_cache' =
                         AppendAll(task_info_cache,
                                   {Key(name, TaskOf(i)) : i \in Elems(ids)},
                                   <<job_id, "qw">>)
                   /\ SubmitContinue(sc, job_id)
                   /\ UNCHANGED <<task_info_cache_set,
                                  task_info_cache_last_update, auto_clean_eqw>>
    /\ UNCHANGED <<now, ops, qs, last>>

\* one attempt of submit_helper: the qsub command and what follows
SubmitHelper ==
    \/ SubmitTimedOut
    \/ \E raw \in SubmitAnswers(HelperName, HelperRange) : SubmitAnswered(raw)

\* ---------------------------------------------------- queue_state, task_state

RECURSIVE AppendEach(_, _, _, _)
\* task_infos[(name, task)].append(v) for task in tasks, in order
AppendEach(c, name, tasks, v) ==
    IF tasks = <<>> THEN c
    ELSE AppendEach(AppendAll(c, {Key(name, Head(tasks))}, v), name, Tail(tasks), v)

RECURSIVE TaskInfos(_, _)
\* the loop over the job records of a listing (lines 269-312), from task_infos c
TaskInfos(c, listing) ==
    IF listing = <<>> THEN c
    ELSE LET job == Head(listing)
         IN  TaskInfos(AppendEach(c, job.JB_name, parse_tasks(job.tasks).ids,
                                  <<job.JB_job_number, job.state>>),
                       Tail(listing))

\* a refresh that adds the listing's records to the snapshot it finds
Snapshot_Merge(listing) == TaskInfos(task_info_cache, listing)

\* the snapshot that a refresh stores for a listing
Snapshot(listing) == TaskInfos(<<>>, listing)

\* some task descriptor of the listing makes parse_tasks raise
ListingRaises(listing) == \E i \in 1..Len(listing) : ~parse_tasks(listing[i].tasks).ok

\* a cache that is still served when the interval has just elapsed
CacheFresh_Inclusive(t, last_update) == t - last_update <= CacheTTL

\* the cached snapshot is served: time.time() - last_update < 30
CacheFresh(t, last_update) == t - last_update < CacheTTL

\* queue_state is called from outside
QueueStateCall ==
    /\ pc = "idle"
    /\ ops < MaxOps
    /\ ops' = ops + 1
    /\ pc' = "queue_state"
    /\ qs' = [NoQuery EXCEPT !.caller = "queue_state"]
    /\ UNCHANGED <<now, engine, sc, result, hist, last>>

\* task_state(task, task_id) is called: it starts with queue_state()
TaskStateCall(task_name, task_id) ==
    /\ pc = "idle"
    /\ ops < MaxOps
    /\ ops' = ops + 1
    /\ pc' = "queue_state"
    /\ qs' = [caller |-> "task_state", task_name |-> task_name, task_id |-> task_id]
    /\ UNCHANGED <<now, engine, sc, result, hist, last>>

\* queue_state returns: to its caller outside, or into task_state
QueueStateReturn(snapshot) ==
    IF qs.caller = "queue_state"
    THEN /\ pc' = "returned"
         /\ result' = [kind |-> "queue_state", value |-> snapshot]
    ELSE /\ pc' = "task_state"
         /\ result' = NoResult

\* a failed attempt that gives up and hands out the old snapshot
QueryFailed_ReturnStale ==
    /\ QueueStateReturn(task_info_cache)
    /\ UNCHANGED engine

\* a failed attempt leaves the engine alone and goes round again
QueryFailed == UNCHANGED <<pc, result, engine>>

\* a refresh gets the listing (lines 255-316)
QueueStateListed(listing) ==
    /\ pc = "queue_state"
    /\ ~CacheFresh(now, task_info_cache_last_update)
    /\ hist' = [hist EXCEPT !.qstat = @ + 1]
    /\ IF ListingRaises(listing)
       THEN /\ pc' = "raised"
            /\ result' = [kind |-> "ValueError"]
            /\ UNCHANGED engine
       ELSE /\ task_info_cache' = Snapshot(listing)
            /\ task_info_cache_set' = TRUE
            /\ task_info_cache_last_update' = now
            /\ QueueStateReturn(Snapshot(listing))
            /\ UNCHANGED auto_clean_eqw
    /\ UNCHANGED <<now, ops, sc, qs, last>>

\* one execution of the body of queue_state (a retry executes it again)
QueueState ==
    /\ pc = "queue_state"
    /\ IF CacheFresh(now, task_info_cache_last_update)
       THEN /\ IF task_info_cache_set
               THEN QueueStateReturn(task_info_cache)
               ELSE pc' = "raised" /\ result' = [kind |-> "AttributeError"]
            /\ UNCHANGED <<now, engine, hist, ops, sc, qs, last>>
       ELSE \/ \* subprocess.TimeoutExpired: sleep, then call queue_state again
               /\ \E d \in WaitPeriods :
                     /\ CanRetry(d)
                     /\ now' = now + d
               /\ hist' = [hist EXCEPT !.qstat = @ + 1, !.retries = @ + 1]
               /\ QueryFailed
               /\ UNCHANGED <<ops, sc, qs, last>>
            \/ \* xml ParseError: sleep, then call queue_state again
               /\ \E d \in WaitPeriods :
                     /\ CanRetry(d)
                     /\ now' = now + d
               /\ hist' = [hist EXCEPT !.qstat = @ + 1, !.retries = @ + 1]
               /\ QueryFailed
               /\ UNCHANGED <<ops, sc, qs, last>>
            \/ \E listing \in Listings : QueueStateListed(listing)

\* the retries are recursive calls (lines 192, 253, 267): the interpreter ends
\* a call nested deeper than its recursion limit with RecursionError. The
\* limit is taken one above the failures that the transport injects under Spec.
RecursionLimit == MaxFailures + 1

\* the calls of the retried function that are active
Depth == hist.retries + 1

\* an attempt of submit_helper times out at the recursion limit: the call of
\* line 192 raises RecursionError, which nothing catches
SubmitRecursionError ==
    /\ pc = "submit_helper"
    /\ Depth = RecursionLimit
    /\ \E d \in WaitPeriods :
          /\ now + d <= MaxTime
          /\ now' = now + d
    /\ hist' = [hist EXCEPT !.issued = Issue,
                            !.timeouts[Len(hist.handed)] = @ + 1]
    /\ pc' = "raised"
    /\ result' = [kind |-> "RecursionError"]
    /\ UNCHANGED <<sc, engine, ops, qs, last>>

\* an attempt of queue_state times out or gets an unparseable listing at the
\* recursion limit: the call of line 253 or 267 raises RecursionError
QueueStateRecursionError ==
    /\ pc = "queue_state"
    /\ ~CacheFresh(now, task_info_cache_last_update)
    /\ Depth = RecursionLimit
    /\ \E d \in WaitPeriods :
          /\ now + d <= MaxTime
          /\ now' = now + d
    /\ hist' = [hist EXCEPT !.qstat = @ + 1]
    /\ pc' = "raised"
    /\ result' = [kind |-> "RecursionError"]
    /\ UNCHANGED <<sc, engine, ops, qs, last>>

\* the abstract state of a raw state string
StateOf(state) ==
    IF state \in {"r", "t"} THEN STATE_RUNNING
    ELSE IF state = "qw" THEN STATE_QUEUE
    ELSE STATE_QUEUE_ERROR

\* task_state after queue_state returned (lines 330-351)
TaskState ==
    /\ pc = "task_state"
    /\ LET name == escape_name(qs.task_name)
           task_name == Key(name, TaskOf(qs.task_id))
           q == Get(task_info_cache, task_name)
           clean == q # <<>> /\ q[1][2] = "Eqw" /\ auto_clean_eqw
           qmod == Append(hist.qmod, [job |-> q[1][1], task |-> qs.task_id])
       IN  /\ task_info_cache' = Touch(task_info_cache, task_name)
           /\ \/ /\ ~clean
                 /\ pc' = "returned"
                 /\ result' = [kind |-> "task_state",
                               value |-> IF q = <<>> THEN STATE_UNKNOWN
                                         ELSE StateOf(q[1][2])]
                 /\ UNCHANGED hist
              \/ \* the qmod command answers
                 /\ clean
                 /\ pc' = "returned"
                 /\ result' = [kind |-> "task_state", value |-> STATE_QUEUE_ERROR]
                 /\ hist' = [hist EXCEPT !.qmod = qmod]
              \/ \* the qmod command times out: nothing catches TimeoutExpired
                 /\ clean
                 /\ pc' = "raised"
                 /\ result' = [kind |-> "TimeoutExpired"]
                 /\ hist' = [hist EXCEPT !.qmod = qmod]
    /\ UNCHANGED <<now, task_info_cache_set, task_info_cache_last_update,
                   auto_clean_eqw, ops, sc, qs, last>>

\* ------------------------------------------------------------------ claims

IsPrefix(s, t) == Len(s) <= Len(t) /\ SubSeq(t, 1, Len(s)) = s

\* the index of the last id of the run that starts s: the run goes on while the
\* gap between neighbours stays the gap of the first two ids
RunEnd(s) ==
    CHOOSE k \in 2..Len(s) :
        /\ \A i \in 2..k : s[i] - s[i - 1] = s[2] - s[1]
        /\ k < Len(s) => s[k + 1] - s[k] # s[2] - s[1]

RECURSIVE RefCompact(_)
\* the reference compactor of the specification, run by run
RefCompact(s) ==
    IF s = <<>> THEN <<>>
    ELSE IF Len(s) = 1 THEN << <<s[1], s[1], 1>> >>
    ELSE LET k == RunEnd(s)
         IN  << <<s[1], s[k], s[2] - s[1]>> >> \o RefCompact(SubSeq(s, k + 1, Len(s)))

\* C1: the ranges that submit_call hands to submit_helper are, at every moment,
\* the first ranges of the reference compactor's output for the task ids, and all
\* of them once submit_call has returned; [1,2,3,5,6,7,10] gives (1,3,1), (5,7,1),
\* (10,10,1) and [7] gives (7,7,1).
C1_Compaction ==
    /\ IsPrefix(hist.handed, RefCompact(sc.task_ids))
    /\ pc = "returned" => hist.handed = RefCompact(sc.task_ids)
    /\ (pc = "returned" /\ sc.task_ids = <<1, 2, 3, 5, 6, 7, 10>>)
          => hist.handed = << <<1, 3, 1>>, <<5, 7, 1>>, <<10, 10, 1>> >>
    /\ (pc = "returned" /\ sc.task_ids = <<7>>) => hist.handed = << <<7, 7, 1>> >>

\* C1 witness: submit_call returned for the ids [1,2,3,5,6,7,10], three ranges handed over
C1_Witness ==
    /\ pc = "returned"
    /\ sc.task_ids = <<1, 2, 3, 5, 6, 7, 10>>
    /\ Len(hist.handed) = 3
    /\ Len(sc.submitted) = 3

\* '-t start-end:step' of a range, end included
RangeText(r) ==
    IntToStr(r[1]) \o <<"-">> \o IntToStr(r[2]) \o <<":">> \o IntToStr(r[3])

RECURSIVE Copies(_, _)
Copies(x, n) == IF n = 0 THEN <<>> ELSE <<x>> \o Copies(x, n - 1)

\* the submit_helper call for the i-th range handed over has come to its end
HelperDone(i) == i < Len(hist.handed) \/ pc # "submit_helper"

RECURSIVE ExpectedCommands(_)
\* the qsub commands of the first i ranges: one per attempt, that is one per
\* transport timeout and one for the attempt that was answered
ExpectedCommands(i) ==
    IF i = 0 THEN <<>>
    ELSE ExpectedCommands(i - 1)
         \o Copies([N |-> escape_name(sc.name), t |-> RangeText(hist.handed[i])],
                   hist.timeouts[i] + (IF HelperDone(i) THEN 1 ELSE 0))

\* C8 as stated: once submit_helper is through with a range, exactly one qsub
\* command has been issued for each range handed over, whatever the answers and
\* timeouts were.
C8_ExactlyOneCommand ==
    pc \in {"submit_loop", "returned", "raised"}
        => /\ Len(hist.issued) = Len(hist.handed)
           /\ \A i \in 1..Len(hist.handed) :
                 hist.issued[i] = [N |-> escape_name(sc.name),
                                   t |-> RangeText(hist.handed[i])]

\* C8 amended: the commands issued are, range by range in emission order, one
\* command per attempt (one for every transport timeout of the range, and one
\* for the attempt that was answered), each with '-t start-end:step', end
\* included; a range whose attempts did not time out has exactly one command.
C8_OneCommandPerAttempt ==
    /\ Len(hist.timeouts) = Len(hist.handed)
    /\ hist.issued = ExpectedCommands(Len(hist.handed))

\* C8 witness: a call returned after two or more ranges, one of which timed out once
C8_Witness ==
    /\ pc = "returned"
    /\ Len(hist.handed) >= 2
    /\ \E i \in 1..Len(hist.handed) : hist.timeouts[i] > 0
    /\ \E i \in 1..Len(hist.handed) : hist.handed[i][1] = hist.handed[i][2]
    /\ Len(hist.issued) > Len(hist.handed)

\* the last entry of the list "submitted"
LastSubmitted(s) == s.submitted[Len(s.submitted)]

\* C2: after a successful submission of (start, end, step) under the job id J,
\* every task id start, start+step, ..., end has the record (J, 'qw') in the
\* cache under the key (escaped job name, task id).
C2_SeedsInclusive ==
    \A i \in 1..Len(sc.submitted) :
        sc.submitted[i][2] # NoJob =>
            \A id \in InclusiveIds(hist.handed[i]) :
                <<sc.submitted[i][2], "qw">>
                    \in Elems(Get(task_info_cache, Key(escape_name(sc.name), TaskOf(id))))

\* C3: a task_state lookup that directly follows a successful submission, for a
\* task id of the submitted range, returns QUEUED.
C3_QueuedAfterSubmit ==
    (/\ pc = "returned"
     /\ result.kind = "task_state"
     /\ escape_name(qs.task_name) = last.name
     /\ qs.task_id \in last.ids)
        => result.value = STATE_QUEUE

\* the snapshot stems from a successful refresh and was not invalidated since
Refreshed == task_info_cache_set /\ task_info_cache_last_update >= StartTime

\* C4: a queue_state call made less than 30 after the successful refresh that
\* stamped the snapshot issues no status query and returns the cached snapshot;
\* a call made at or after that time issues a status query, and exactly one
\* when this query succeeds and parses.
C4_CacheTTL ==
    [][ (pc = "queue_state" /\ hist.qstat = 0 /\ Refreshed) =>
           IF now < task_info_cache_last_update + CacheTTL
           THEN /\ hist'.qstat = 0
                /\ pc' \in {"returned", "task_state"}
                /\ pc' = "returned" => result'.value = task_info_cache
                /\ task_info_cache' = task_info_cache
                /\ task_info_cache_last_update' = task_info_cache_last_update
           ELSE /\ hist'.qstat = 1
                /\ (\E listing \in Listings :
                       ~ListingRaises(listing) /\ QueueStateListed(listing))
                      => /\ pc' \in {"returned", "task_state"}
                         /\ task_info_cache_last_update' = now
       ]_vars

\* C4 witness: a call returned the cached snapshot, 20 after its refresh, without a query
C4_Witness ==
    /\ pc = "returned"
    /\ result.kind = "queue_state"
    /\ hist.qstat = 0
    /\ Refreshed
    /\ now = task_info_cache_last_update + 20
    /\ result.value = task_info_cache

\* the answer deviates from the expected acknowledgment, in the claim's words:
\* line count, exit code, error output, token count, or a token of the template
ClaimedDeviation(raw, name) ==
    \/ Len(raw.out) # 1
    \/ raw.retval # 0
    \/ \E i \in 1..Len(raw.err) : ~IsMarker(raw.err[i])
    \/ Len(raw.out[1]) # 7
    \/ \E i \in {1, 2, 4, 5, 6, 7} : raw.out[1][i] # AckLine(<<>>, name)[i]

\* C5: when the answer to a submission deviates from the expected
\* acknowledgment, submit_helper returns no job id, writes nothing into the
\* cache and sets the timestamp so that no later time is within the refresh
\* interval; and a queue_state call that finds this timestamp issues a query.
C5_FailedSubmission ==
    [][ /\ (/\ pc = "submit_helper"
            /\ \E raw \in SubmitAnswers(HelperName, HelperRange) :
                  /\ ClaimedDeviation(raw, escape_name(sc.name))
                  /\ SubmitAnswered(raw))
           => /\ pc' \in {"submit_loop", "returned"}
              /\ Len(sc'.submitted) = Len(sc.submitted) + 1
              /\ LastSubmitted(sc')[2] = NoJob
              /\ task_info_cache' = task_info_cache
              /\ task_info_cache_set' = task_info_cache_set
              /\ task_info_cache_last_update' = ResetStamp
              /\ \A t \in now'..MaxTime : t - task_info_cache_last_update' >= CacheTTL
        /\ (pc = "queue_state" /\ task_info_cache_last_update = ResetStamp)
           => hist'.qstat = hist.qstat + 1
       ]_vars

\* C5 witness: a submission of two ids made right after a refresh has failed
C5_Witness ==
    /\ pc = "returned"
    /\ result.kind = "submit_call"
    /\ Len(sc.task_ids) = 2
    /\ LastSubmitted(sc)[2] = NoJob
    /\ task_info_cache_set
    /\ now = StartTime
    /\ task_info_cache_last_update = ResetStamp

\* C6: no operation of the engine ends in an exception.
C6_NeverRaises == pc # "raised"

\* C7: a transport timeout of a remote command (qsub, qstat, qmod) is never
\* surfaced to the caller.
C7_TimeoutNeverSurfaces == ~(pc = "raised" /\ result.kind = "TimeoutExpired")

\* C9: the snapshot (its keys included) and the timestamp change only in a
\* refresh of queue_state; steps of task_state and queue_state calls served from
\* the cache leave both unchanged.
C9_ReadsNeverMutate ==
    [][ /\ pc = "task_state"
           => /\ task_info_cache' = task_info_cache
              /\ task_info_cache_last_update' = task_info_cache_last_update
        /\ (\/ task_info_cache' # task_info_cache
            \/ task_info_cache_last_update' # task_info_cache_last_update)
           => pc = "queue_state" /\ hist'.qstat = hist.qstat + 1
       ]_vars

\* C10: an attempt of a refresh that times out or gets an unparseable listing
\* returns nothing and leaves the snapshot and its timestamp as they were; a
\* call that returns after failed attempts returns the snapshot of one whole
\* listing, stamped with the time of the attempt that succeeded.
C10_FailedRefresh ==
    [][ /\ (pc = "queue_state" /\ hist'.retries = hist.retries + 1)
           => /\ pc' = "queue_state"
              /\ result' = result
              /\ task_info_cache' = task_info_cache
              /\ task_info_cache_set' = task_info_cache_set
              /\ task_info_cache_last_update' = task_info_cache_last_update
        /\ (pc = "queue_state" /\ pc' \in {"returned", "task_state"} /\ hist.retries > 0)
           => /\ \E listing \in Listings :
                    /\ ~ListingRaises(listing)
                    /\ task_info_cache' = Snapshot(listing)
              /\ task_info_cache_set'
              /\ task_info_cache_last_update' = now'
              /\ pc' = "returned" => result'.value = task_info_cache'
       ]_vars

\* C10 witness: a refresh of an engine that held a snapshot returned a listing's
\* snapshot after a timeout and an unparseable listing
C10_Witness ==
    /\ pc = "returned"
    /\ result.kind = "queue_state"
    /\ ops >= 2
    /\ hist.retries >= 2
    /\ hist.qstat = 3
    /\ result.value = Snapshot(<<RunningArray, ErrorTask>>)
    /\ task_info_cache = result.value
    /\ task_info_cache_last_update = now

\* the job record covers the task of the key k = (name, task)
Covers(job, k) ==
    /\ job.JB_name = k[1]
    /\ parse_tasks(job.tasks).ok
    /\ k[2] \in Elems(parse_tasks(job.tasks).ids)

\* C11: after a successful refresh the snapshot holds exactly the records of
\* the listing of this refresh: every key has a record, every record of a key
\* is the (job number, state) of a job record of the listing that covers the
\* key, every job record of the listing is under each key it covers, and the
\* timestamp is set in the same step.
C11_SnapshotReplaced ==
    [][ (pc = "queue_state" /\ pc' \in {"returned", "task_state"}
                                /\ hist'.qstat = hist.qstat + 1)
        => \A listing \in Listings :
           (QueueStateListed(listing) /\ ~ListingRaises(listing))
              => /\ \A k \in DOMAIN task_info_cache' :
                       /\ task_info_cache'[k] # <<>>
                       /\ \A e \in Elems(task_info_cache'[k]) :
                             \E i \in 1..Len(listing) :
                                /\ Covers(listing[i], k)
                                /\ e = <<listing[i].JB_job_number, listing[i].state>>
                 /\ \A i \in 1..Len(listing) :
                       \A t \in Elems(parse_tasks(listing[i].tasks).ids) :
                          /\ Key(listing[i].JB_name, t) \in DOMAIN task_info_cache'
                          /\ <<listing[i].JB_job_number, listing[i].state>>
                                \in Elems(task_info_cache'[Key(listing[i].JB_name, t)])
                 /\ task_info_cache_set'
                 /\ task_info_cache_last_update' = now'
       ]_vars

\* C11 witness: a refresh that directly follows a submission of the ids 1 and 2,
\* which seeded a record, returned the listing's snapshot without that record
C11_Witness ==
    /\ pc = "returned"
    /\ result.kind = "queue_state"
    /\ hist.qstat = 1
    /\ last.ids = {1, 2}
    /\ task_info_cache = result.value
    /\ Key(<<"a", ".", "b">>, TaskOf(1)) \in DOMAIN task_info_cache
    /\ \A e \in Elems(task_info_cache[Key(<<"a", ".", "b">>, TaskOf(1))]) : e[2] # "qw"
    /\ task_info_cache_last_update = now

\* the first record of the key that the running task_state call looks up, as a
\* one-element list, or the empty list when the key has no record
FirstRecord ==
    LET q == Get(task_info_cache, Key(escape_name(qs.task_name), TaskOf(qs.task_id)))
    IN  IF q = <<>> THEN <<>> ELSE <<q[1]>>

\* the abstract state that belongs to the looked-up key
MappedState ==
    IF FirstRecord = <<>> THEN "UNKNOWN"
    ELSE IF FirstRecord[1][2] \in {"r", "t"} THEN "RUNNING"
    ELSE IF FirstRecord[1][2] = "qw" THEN "QUEUE"
    ELSE "QUEUE_ERROR"

\* C12: task_state is a total mapping of the first cached record of the key:
\* every lookup returns, and returns UNKNOWN for no record, RUNNING for 'r' and
\* 't', QUEUED for 'qw', QUEUE_ERROR for 'Eqw' and for every other raw state.
C12_TotalMapping ==
    [][ pc = "task_state"
           => /\ pc' = "returned"
              /\ result'.kind = "task_state"
              /\ result'.value = MappedState
       ]_vars

\* what holds of C12: a lookup that returns, returns the mapped state
C12_ReturnedMapping ==
    [][ (pc = "task_state" /\ pc' = "returned")
           => /\ result'.kind = "task_state"
              /\ result'.value = MappedState
       ]_vars

\* auto-clean is enabled and the first record of the looked-up key is in 'Eqw'
CleanCase ==
    /\ auto_clean_eqw
    /\ FirstRecord # <<>>
    /\ FirstRecord[1][2] = "Eqw"

\* the one clear command of the lookup: the first record's job id, the queried task id
ClearCommand == [job |-> FirstRecord[1][1], task |-> qs.task_id]

\* C13: with auto-clean enabled and a first record in 'Eqw', one task_state call
\* issues exactly one clear command, for that record's job id and the queried
\* task id, and returns QUEUE_ERROR; otherwise it issues no clear command.
C13_AutoClean ==
    [][ pc = "task_state"
           => IF CleanCase
              THEN /\ hist'.qmod = <<ClearCommand>>
                   /\ pc' = "returned"
                   /\ result'.value = "QUEUE_ERROR"
              ELSE hist'.qmod = <<>>
       ]_vars

\* what holds of C13: the commands issued, and the value of a call that returns
C13_ClearCommands ==
    [][ pc = "task_state"
           => IF CleanCase
              THEN /\ hist'.qmod = <<ClearCommand>>
                   /\ pc' = "returned" => result'.value = "QUEUE_ERROR"
              ELSE hist'.qmod = <<>>
       ]_vars

\* the characters of the task descriptors
Alphabet == {"1", "2", "-", ":", ","}

\* the texts over the alphabet of a length from 1 to n
Texts(n) == UNION {[1..k -> Alphabet] : k \in 1..n}

\* the range descriptors 'start-end:step' that the scheduler writes
RangeTexts == {FormatRange(a, b, c) : a \in 1..3, b \in 1..3, c \in 1..2}

\* the task descriptors of a job record: absent, every short text, the ranges,
\* and comma-separated lists that start with a range
Descriptors ==
    {NoTasks} \cup Texts(MaxDescriptorLen) \cup RangeTexts
        \cup {r \o <<",">> \o s : r \in RangeTexts, s \in {<<"3">>, <<"1", "-", "2">>}}

\* a listing with one job record, whose task descriptor is d
ListingOf(d) == <<JobRecord(<<"a", ".", "b">>, "r", d, <<"7">>)>>

\* the text is a well-formed range 'start-end:step' with a step of 1 or more
WellFormedRange(d) ==
    /\ Len(Split(d, ":")) = 2
    /\ Len(Split(Split(d, ":")[1], "-")) = 2
    /\ \A p \in {1, 2} : AllDigits(Split(Split(d, ":")[1], "-")[p])
    /\ AllDigits(Split(d, ":")[2])
    /\ DigitsVal(Split(d, ":")[2]) >= 1

RECURSIVE FromTo(_, _, _)
\* start, start+step, ... not exceeding end
FromTo(start, end, step) ==
    IF start > end THEN <<>> ELSE <<TaskOf(start)>> \o FromTo(start + step, end, step)

RECURSIVE Grammar(_)
\* the task-descriptor grammar: the tasks of a descriptor
Grammar(d) ==
    IF d = NoTasks THEN <<NoTask>>
    ELSE IF IsInt(d) THEN <<TaskOf(StrToInt(d))>>
    ELSE IF Contains(d, ",")
    THEN LET parts == Split(d, ",")
             RECURSIVE cat(_)
             cat(i) == IF i > Len(parts) THEN <<>> ELSE Grammar(parts[i]) \o cat(i + 1)
         IN  cat(1)
    ELSE IF WellFormedRange(d)
    THEN FromTo(DigitsVal(Split(Split(d, ":")[1], "-")[1]),
                DigitsVal(Split(Split(d, ":")[1], "-")[2]),
                DigitsVal(Split(d, ":")[2]))
    ELSE <<>>

\* C14: for every task descriptor of a job record, the refresh is not aborted
\* and stores the job's record under the tasks that the grammar gives: [None]
\* for an absent descriptor, [n] for an integer, the parts' tasks in order for a
\* comma-separated list, the inclusive sequence for 'start-end:step', and no
\* task for every other text.
C14_ParserGrammar ==
    [][ pc = "queue_state"
        => \A d \in Descriptors :
              QueueStateListed(ListingOf(d))
                 => /\ pc' # "raised"
                    /\ task_info_cache'
                          = AppendEach(<<>>, <<"a", ".", "b">>, Grammar(d), <<<<"7">>, "r">>)
       ]_vars

\* what holds of C14: a refresh that is not aborted stores the grammar's tasks
C14_ParsedAsGrammar ==
    [][ pc = "queue_state"
        => \A d \in Descriptors :
              (QueueStateListed(ListingOf(d)) /\ pc' # "raised")
                 => task_info_cache'
                       = AppendEach(<<>>, <<"a", ".", "b">>, Grammar(d), <<<<"7">>, "r">>)
       ]_vars

\* the job names over the characters 'a', '/' and '.', of a length from 1 to n
Names(n) == UNION {[1..k -> {"a", "/", "."}] : k \in 1..n}

\* C15: escaping an escaped name gives the same name; so every attempt of
\* submit_helper, a retry after a timeout included, issues its command under the
\* escaped name of the call and expects this name in the acknowledgment.
C15_EscapeIdempotent ==
    /\ escape_name(escape_name(sc.name)) = escape_name(sc.name)
    /\ escape_name(escape_name(sc.harg)) = escape_name(sc.harg)
    /\ pc = "submit_helper"
          => /\ HelperName = escape_name(sc.name)
             /\ RefOutput(HelperName) = RefOutput(escape_name(sc.name))
    /\ \A i \in 1..Len(hist.issued) : hist.issued[i].N = escape_name(sc.name)

\* C15 witness: the second attempt, after a timeout, of a submission under a name
\* with '/' and '.': submit_helper is called with the escaped name
C15_Witness ==
    /\ pc = "submit_helper"
    /\ hist.retries = 1
    /\ Len(hist.issued) = 1
    /\ sc.name = <<"/", ".", "a">>
    /\ sc.harg = <<".", ".", "a">>

\* the entry of the list "submitted" for the range r = (start, end, step)
EntryOf(r, job_id) == <<PyRange(r[1], r[2], r[3]), job_id>>

\* C16: an answer that fails the acknowledgment validation ends submit_helper
\* for its range after this one command, with an absent job id (an answer that
\* passes gives a job id); the attempt at hand is always for a range that has no
\* entry yet; submit_call goes on with the remaining ids, and when it returns,
\* the ranges handed over are all ranges of the task ids and the record has one
\* entry per range, in the order of the ranges.
C16_FailureNotRetried ==
    /\ [](pc = "submit_helper" => Len(sc.submitted) = Len(hist.handed) - 1)
    /\ []((pc = "returned" /\ sc.task_ids # <<>>)
             => /\ hist.handed = RefCompact(sc.task_ids)
                /\ result.value[2] = sc.submitted
                /\ Len(sc.submitted) = Len(hist.handed)
                /\ \A i \in 1..Len(hist.handed) :
                      sc.submitted[i][1] = EntryOf(hist.handed[i], NoJob)[1])
    /\ [][ (pc = "submit_helper" /\ pc' \notin {"submit_helper", "raised"})
           => LET answers == SubmitAnswers(HelperName, HelperRange)
                  failing == {raw \in answers : AckDeviates(system_call(raw), HelperName)}
              IN  \* the step is as claimed, or no failing answer gives this step
                  /\ \/ /\ pc' = IF sc.final THEN "returned" ELSE "submit_loop"
                        /\ hist'.issued
                              = Append(hist.issued, [N |-> HelperName, t |-> HelperRange])
                        /\ sc'.submitted
                              = Append(sc.submitted,
                                       EntryOf(hist.handed[Len(hist.handed)], NoJob))
                     \/ ~\E raw \in failing : SubmitAnswered(raw)
                  \* a job id is returned, or no passing answer gives this step
                  /\ \/ LastSubmitted(sc')[2] # NoJob
                     \/ ~\E raw \in answers \ failing : SubmitAnswered(raw)
         ]_vars

\* C16 witness: a call of three ranges returned, without any timeout and with
\* three commands, the first and the third range failed and the second submitted
C16_Witness ==
    /\ pc = "returned"
    /\ Len(hist.handed) = 3
    /\ Len(hist.issued) = 3
    /\ \A i \in 1..3 : hist.timeouts[i] = 0
    /\ sc.submitted[1][2] = NoJob
    /\ sc.submitted[2][2] # NoJob
    /\ sc.submitted[3][2] = NoJob

\* a call of submit_helper or of queue_state is under way
Retrying == pc \in {"submit_helper", "queue_state"}

\* C17: the number of attempts of a call is not bounded: however many attempts
\* of a call of queue_state or submit_helper timed out or met an unparseable
\* listing, the call goes on trying and does not end by reporting a failure.
C17_RetriesUnbounded ==
    [][ (Retrying /\ hist.retries >= MaxFailures)
           => ~(pc' = "raised" /\ result'.kind = "RecursionError") ]_vars

\* what holds of C17: a call that is under way comes to an end
C17_CallsEnd == Retrying ~> ~Retrying

RECURSIVE RecordsOf(_, _)
\* the (job number, state) pairs of the job records of the listing that cover
\* the key k, in the order of the listing
RecordsOf(listing, k) ==
    IF listing = <<>> THEN <<>>
    ELSE (IF Covers(Head(listing), k)
          THEN <<<<Head(listing).JB_job_number, Head(listing).state>>>>
          ELSE <<>>) \o RecordsOf(Tail(listing), k)

\* the records of the key that the running task_state call looks up
Looked == Get(task_info_cache, Key(escape_name(qs.task_name), TaskOf(qs.task_id)))

C19_RangesPartition ==
    LET h == hist.handed
    IN  /\ \A i \in 1..Len(h) : \A j \in 1..Len(h) :
              i < j => /\ InclusiveIds(h[i]) \cap InclusiveIds(h[j]) = {}
                       /\ h[i][1] < h[j][1]
        /\ \A i \in 1..Len(h) :
              /\ h[i][3] >= 1
              /\ InclusiveIds(h[i]) \subseteq Elems(sc.task_ids)
        /\ (sc.final \/ pc = "returned")
              => UNION {InclusiveIds(h[i]) : i \in 1..Len(h)} = Elems(sc.task_ids)

\* C19 witness: submit_call returned for the ids [1,2,4,6,7]; the ranges
\* (1,2,1), (4,6,2) and (7,7,1) were handed over
C19_Witness ==
    /\ pc = "returned"
    /\ sc.task_ids = <<1, 2, 4, 6, 7>>
    /\ hist.handed = << <<1, 2, 1>>, <<4, 6, 2>>, <<7, 7, 1>> >>
    /\ Len(sc.submitted) = 3

\* the stderr line is the multiplexing marker, with or without white space around it
TheMarker(line) == line \in {MarkerLine, PaddedMarker}

\* the lines of a stderr text that are not the marker, in their order
OtherLines(err) == SelectSeq(err, LAMBDA line : ~TheMarker(line))

\* the step is an attempt of submit_helper that got the expected acknowledgment
\* with exit code 0 and the stderr text err
FilteredAnswer(err) == SubmitAnswered(Acknowledged(HelperName, HelperRange, err))

\* C20: for every stderr text the executor returns, and returns exactly the
\* lines that are not the multiplexing marker, unchanged and in their order;
\* a submission acknowledged with exit code 0 whose stderr holds only marker
\* lines gets its job id.
C20_StderrFilter ==
    [][ pc = "submit_helper"
           => \A err \in StderrTexts :
                 FilteredAnswer(err)
                    => /\ pc' # "raised"
                       /\ system_call(Acknowledged(HelperName, HelperRange, err)).err
                             = OtherLines(err)
                       /\ OtherLines(err) = <<>> => LastSubmitted(sc')[2] # NoJob
                       /\ OtherLines(err) # <<>> => LastSubmitted(sc')[2] = NoJob
       ]_vars

\* what holds of C20: the same for the stderr texts whose lines are UTF-8
C20_DecodableFilter ==
    [][ pc = "submit_helper"
           => \A err \in StderrTexts :
                 (FilteredAnswer(err) /\ \A i \in 1..Len(err) : ~Undecodable(err[i]))
                    => /\ pc' # "raised"
                       /\ system_call(Acknowledged(HelperName, HelperRange, err)).err
                             = OtherLines(err)
                       /\ OtherLines(err) = <<>> => LastSubmitted(sc')[2] # NoJob
                       /\ OtherLines(err) # <<>> => LastSubmitted(sc')[2] = NoJob
       ]_vars

\* ------------------------------------------------------------ specifications

\* the engine, called with the task ids 1..MaxTaskId
Next ==
    \/ Tick
    \/ \E name \in TaskNames, task_ids \in IncreasingLists(MaxTaskId) :
          SubmitCall(name, task_ids)
    \/ SubmitLoop
    \/ SubmitLast
    \/ SubmitHelper
    \/ QueueStateCall
    \/ \E task_name \in TaskNames, task_id \in 1..MaxTaskId :
          TaskStateCall(task_name, task_id)
    \/ QueueState
    \/ TaskState
    \/ Return

Spec == Init /\ [][Next]_vars

\* an engine whose first refresh found an empty listing
InitCompact ==
    /\ now = StartTime
    /\ task_info_cache_set = TRUE
    /\ task_info_cache = Snapshot(<<>>)
    /\ task_info_cache_last_update = StartTime
    /\ auto_clean_eqw = TRUE
    /\ pc = "idle"
    /\ ops = 0
    /\ sc = NoSubmit
    /\ qs = NoQuery
    /\ result = NoResult
    /\ hist = NoHist
    /\ last = NoLast

\* one submit_call with task ids of 1..MaxCompactId
NextCompact ==
    \/ /\ pc = "idle"
       /\ ops = 0
       /\ \E name \in TaskNames, task_ids \in IncreasingLists(MaxCompactId) :
             SubmitCall(name, task_ids)
    \/ SubmitLoop
    \/ SubmitLast
    \/ SubmitHelper

SpecCompact == InitCompact /\ [][NextCompact]_vars

\* SonOfGridEngine.__init__ with the default auto_clean_eqw=True
InitFollow == Init /\ auto_clean_eqw = TRUE

\* the engine, with a caller that remembers its last submission
NextFollow ==
    \/ Tick
    \/ \E name \in TaskNames, task_ids \in IncreasingLists(MaxTaskId) :
          SubmitCall(name, task_ids)
    \/ SubmitLoop
    \/ SubmitLast
    \/ SubmitHelper
    \/ QueueStateCall
    \/ \E task_name \in TaskNames, task_id \in 1..MaxTaskId :
          TaskStateCall(task_name, task_id)
    \/ QueueState
    \/ TaskState
    \/ ReturnNoting

SpecFollow == InitFollow /\ [][NextFollow]_vars

\* a refresh, at any time, of a listing with one job record, for each task descriptor
NextParse ==
    \/ Tick
    \/ QueueStateCall
    \/ \E d \in Descriptors : QueueStateListed(ListingOf(d))

SpecParse == Init /\ [][NextParse]_vars

\* one submit_call under each job name of up to MaxNameLen characters
NextEscape ==
    \/ /\ pc = "idle"
       /\ ops = 0
       /\ \E name \in Names(MaxNameLen), task_ids \in IncreasingLists(MaxTaskId) :
             SubmitCall(name, task_ids)
    \/ SubmitLoop
    \/ SubmitLast
    \/ SubmitHelper

SpecEscape == InitCompact /\ [][NextEscape]_vars

\* one submit_call with task ids of 1..MaxRangeId: up to three ranges
NextRanges ==
    \/ /\ pc = "idle"
       /\ ops = 0
       /\ \E name \in TaskNames, task_ids \in IncreasingLists(MaxRangeId) :
             SubmitCall(name, task_ids)
    \/ SubmitLoop
    \/ SubmitLast
    \/ SubmitHelper

SpecRanges == InitCompact /\ [][NextRanges]_vars

\* the engine with a transport that may fail at every attempt
NextRetry ==
    \/ Tick
    \/ \E name \in TaskNames, task_ids \in IncreasingLists(MaxTaskId) :
          SubmitCall(name, task_ids)
    \/ SubmitLoop
    \/ SubmitLast
    \/ SubmitHelper
    \/ SubmitRecursionError
    \/ QueueStateCall
    \/ QueueState
    \/ QueueStateRecursionError
    \/ Return

\* the thread of control runs on while a call is under way
SpecRetry ==
    /\ Init
    /\ [][NextRetry]_vars
    /\ WF_vars(SubmitLoop \/ SubmitLast \/ SubmitHelper \/ SubmitRecursionError)
    /\ WF_vars(QueueState \/ QueueStateRecursionError)

\* submissions that are acknowledged, with every stderr text
NextFilter ==
    \/ Tick
    \/ \E name \in TaskNames, task_ids \in IncreasingLists(MaxTaskId) :
          SubmitCall(name, task_ids)
    \/ SubmitLoop
    \/ SubmitLast
    \/ \E err \in StderrTexts : FilteredAnswer(err)
    \/ Return

SpecFilter == InitCompact /\ [][NextFilter]_vars

====
